---- MODULE Spec2Model ----
(***************************************************************************)
(* Model of game.py: the Creature / Player / Monster combat core.          *)
(*                                                                         *)
(* Two objects exist, a Player ("player") and a Monster ("monster").  The  *)
(* public operations take_damage, heal and attack_target are called in any *)
(* order, with any argument, on any of them (a creature may be passed as   *)
(* its own target).  A call that raises ArgumentError is a step too: it    *)
(* is recorded in `last`, so that what a failed call leaves behind can be  *)
(* stated.  `pre` is the value of `creatures` when the last call started.  *)
(*                                                                         *)
(* Spec is that free use of the library.  DamageSpec calls take_damage     *)
(* only and keeps the sum of the amounts in `dealt`; CtorSpec makes one    *)
(* constructor call; DiceSpec makes one attack with the dice kept in       *)
(* `dice`; DriverSpec is the loop  of the __main__ block, at `pc`.         *)
(***************************************************************************)
EXTENDS Integers, Sequences, FiniteSets, TLC

VARIABLES creatures, pre, last, healCalls, dealt, dice, pc

vars == <<creatures, pre, last, healCalls, dealt, dice, pc>>

(***************************************************************************)
(* Bounds of the model.                                                    *)
(***************************************************************************)
\* largest attack / defense handed to a constructor (the code allows STAT_MAX)
MaxStat == 2
\* most dice of one attack that DiceSpec rolls out
MaxDice == 3
\* largest max_health handed to a constructor
MaxHealth == 7
\* largest damage_range bound handed to a constructor
MaxDamage == 2
\* heal() calls on a living player that the model follows
MaxHealCalls == 5

(***************************************************************************)
(* Program constants.                                                      *)
(***************************************************************************)
STAT_MIN == 1
STAT_MAX == 30
MAX_HEALS == 4
\* HEAL_PERCENT = 0.3, kept as the exact fraction 3 / 10
HEAL_PERCENT_NUM == 3
HEAL_PERCENT_DEN == 10
DIE_SIDES == 6
DIE_SUCCESS == 5
\* the driver heals at or below this health
HEAL_THRESHOLD == 35
\* the driver's Player(...) and Monster(...) calls
DriverPlayerArgs == <<"Hero", 10, 8, 100, <<5, 12>>>>
DriverGoblinArgs == <<"Goblin", 7, 5, 40, <<3, 6>>>>

Ids == {"player", "monster"}

Max(a, b) == IF a >= b THEN a ELSE b
Min(a, b) == IF a <= b THEN a ELSE b

(***************************************************************************)
(* Validation helpers.  Arguments are integers here, so the isinstance     *)
(* tests of the code always pass and only the range tests remain.          *)
(***************************************************************************)
\* (variant) _check_stat without the upper limit
_check_stat_no_max(value, min_v, max_v) == min_v <= value

\* _check_stat: TRUE iff it returns without raising
_check_stat(value, min_v, max_v) == min_v <= value /\ value <= max_v

\* (variant) _check_damage_range without the `a < 1` test
_check_damage_range_no_min(dmg) ==
    /\ Len(dmg) = 2
    /\ ~(dmg[2] < dmg[1])

\* _check_damage_range: TRUE iff it returns without raising
_check_damage_range(dmg) ==
    /\ Len(dmg) = 2
    /\ ~(dmg[1] < 1 \/ dmg[2] < dmg[1])

(***************************************************************************)
(* Constructors.  The result is [raised |-> TRUE] when ArgumentError is     *)
(* raised, and the new object otherwise.                                   *)
(***************************************************************************)
CreatureInit(cls, name, attack, defense, max_health, damage_range) ==
    IF \/ name = ""
       \/ ~_check_stat(attack, STAT_MIN, STAT_MAX)
       \/ ~_check_stat(defense, STAT_MIN, STAT_MAX)
       \/ max_health <= 0
       \/ ~_check_damage_range(damage_range)
    THEN [raised |-> TRUE]
    ELSE [raised |-> FALSE,
          obj |-> [cls |-> cls, name |-> name, attack |-> attack,
                   defense |-> defense, max_health |-> max_health,
                   health |-> max_health, damage_range |-> damage_range]]

\* Player.__init__: Creature.__init__, then _heals_used = 0
PlayerInit(name, attack, defense, max_health, damage_range) ==
    LET super == CreatureInit("Player", name, attack, defense, max_health,
                              damage_range)
    IN  IF super.raised
        THEN super
        ELSE [raised |-> FALSE, obj |-> [heals_used |-> 0] @@ super.obj]

MonsterInit(name, attack, defense, max_health, damage_range) ==
    CreatureInit("Monster", name, attack, defense, max_health, damage_range)

(***************************************************************************)
(* Methods, as functions of the objects they read.                         *)
(***************************************************************************)
is_alive(c) == c.health > 0

\* (variant) take_damage without the max(0, ...)
take_damage_health_unclamped(c, dmg) == c.health - dmg

\* (variant) take_damage that never takes the last health
take_damage_health_keeps_one(c, dmg) == Max(1, c.health - dmg)

\* take_damage: the new health, for an accepted dmg
take_damage_health(c, dmg) == Max(0, c.health - dmg)

\* (variant) take_damage that validates nothing
take_damage_raises_never(dmg) == FALSE

\* (variant) take_damage that rejects 0 as well
take_damage_raises_on_zero(dmg) == dmg <= 0

\* take_damage: does the call raise?
take_damage_raises(dmg) == dmg < 0

\* (variant) heal without the `if amount <= 0: amount = 1`
heal_amount_unclamped(p) ==
    (p.max_health * HEAL_PERCENT_NUM) \div HEAL_PERCENT_DEN

\* heal: the amount computed at lines 100-102
heal_amount(p) ==
    LET amount == (p.max_health * HEAL_PERCENT_NUM) \div HEAL_PERCENT_DEN
    IN  IF amount <= 0 THEN 1 ELSE amount

\* (variant) heal that counts to a limit one too low
heal_raises_one_early(p) == ~is_alive(p) \/ p.heals_used >= MAX_HEALS - 1

\* (variant) heal without the `not self.is_alive()` test
heal_raises_limit_only(p) == p.heals_used >= MAX_HEALS

\* heal: does the call raise?
heal_raises(p) == ~is_alive(p) \/ p.heals_used >= MAX_HEALS

\* (variant) heal without the min(max_health, ...)
heal_new_health_uncapped(p) == p.health + heal_amount(p)

\* heal: new_health of line 103
heal_new_health(p) == Min(p.max_health, p.health + heal_amount(p))

\* heal: `restored` of line 104, the value returned
heal_restored(p) == heal_new_health(p) - p.health

\* (variant) heal that forgets `self._heals_used += 1`
heal_update_uncounted(p) == [p EXCEPT !.health = heal_new_health(p)]

\* heal: the object after a heal that does not raise
heal_update(p) ==
    [p EXCEPT !.health = heal_new_health(p), !.heals_used = p.heals_used + 1]

\* (variant) heals_left counting the heals used instead of those left
heals_left_used(p) == Max(0, p.heals_used)

heals_left(p) == Max(0, MAX_HEALS - p.heals_used)

\* (variant) attack_target without the `not other.is_alive()` test
attack_raises_dead_self_only(self, other) == ~is_alive(self)

\* attack_target: does the call raise?
attack_raises(self, other) == ~is_alive(self) \/ ~is_alive(other)

\* (variant) the modifier without its + 1
dice_count_no_bonus(self, other) == Max(1, self.attack - other.defense)

dice_count(self, other) == Max(1, self.attack - other.defense + 1)

success(rolls) == \E i \in DOMAIN rolls : rolls[i] >= DIE_SUCCESS

\* the values `success` can take at line 71 when n dice are rolled
OutcomesOfDice(n) == {success(rolls) : rolls \in [1 .. n -> 1 .. DIE_SIDES]}

\* OutcomesOfDice, tabulated once for the dice counts up to that of the
\* driver's player attacking the driver's goblin
OutcomesTable ==
    [n \in 1 .. (DriverPlayerArgs[2] - DriverGoblinArgs[3] + 1)
       |-> OutcomesOfDice(n)]

\* the value of `success` at line 71, over every outcome of the dice
SuccessOutcomes(self, other) ==
    LET n == dice_count(self, other)
    IN  IF n \in DOMAIN OutcomesTable THEN OutcomesTable[n]
        ELSE OutcomesOfDice(n)

\* (variant) random.randint(0, damage_range[1])
DamageDraws_from_zero(self) == 0 .. self.damage_range[2]

\* random.randint(damage_range[0], damage_range[1])
DamageDraws(self) == self.damage_range[1] .. self.damage_range[2]

\* (variant) a hit that costs the attacker one of its own health as well
attack_hit_recoil(cs, a, b, dmg) ==
    LET hit == [cs EXCEPT ![b].health = take_damage_health(cs[b], dmg)]
    IN  [hit EXCEPT ![a].health = take_damage_health(hit[a], 1)]

\* a.attack_target(b), lines 74-76: other.take_damage(dmg); return True, dmg
attack_hit(cs, a, b, dmg) ==
    [cs EXCEPT ![b].health = take_damage_health(cs[b], dmg)]

attack_hit_return(dmg) == <<TRUE, dmg>>

\* (variant) a miss that still takes one health from the target
attack_miss_grazes(cs, a, b) ==
    [cs EXCEPT ![b].health = take_damage_health(cs[b], 1)]

\* a.attack_target(b), lines 77-78: return False, 0
attack_miss(cs, a, b) == cs

attack_miss_return == <<FALSE, 0>>

(***************************************************************************)
(* Initial states: both objects freshly constructed.  The argument sets    *)
(* hold rejected values too; a construction that raises yields no object.  *)
(***************************************************************************)
\* attack / defense arguments: below range, smallest, a larger one, above range
StatArgs == {STAT_MIN - 1, STAT_MIN, MaxStat, STAT_MAX + 1}
HealthArgs == 0 .. MaxHealth
DamageRangeArgs == {<<0, MaxDamage>>, <<1, MaxDamage>>,
                    <<MaxDamage, MaxDamage>>, <<MaxDamage, 1>>}
\* Player(name, attack, defense, max_health, damage_range) calls
PlayerArgs == {"", "Hero"} \X StatArgs \X {STAT_MIN} \X HealthArgs
                \X DamageRangeArgs
\* Monster(name, attack, defense, max_health, damage_range) calls
MonsterArgs == {"", "Goblin"} \X {STAT_MIN} \X StatArgs \X {-1, MaxDamage + 1}
                 \X {<<0, MaxDamage>>, <<1, MaxDamage>>}
\* take_damage arguments
DamageArgs == -1 .. (MaxDamage + 1)

\* a call and its outcome: the method, the objects and argument it was given,
\* whether it raised ArgumentError, the local `success` of attack_target and
\* the values returned ((hit, dmg) by attack_target, restored by heal)
NoCall == [op |-> "new", self |-> "", other |-> "", arg |-> 0,
           raised |-> FALSE, success |-> FALSE, hit |-> FALSE, dmg |-> 0,
           restored |-> 0]

Init ==
    \E pa \in PlayerArgs, ma \in MonsterArgs :
        LET p == PlayerInit(pa[1], pa[2], pa[3], pa[4], pa[5])
            m == MonsterInit(ma[1], ma[2], ma[3], ma[4], ma[5])
        IN  /\ ~p.raised
            /\ ~m.raised
            /\ creatures = [i \in Ids |-> IF i = "player" THEN p.obj ELSE m.obj]
            /\ pre = creatures
            /\ last = NoCall
            /\ healCalls = 0
            /\ dealt = [i \in Ids |-> 0]
            /\ dice = <<>>
            /\ pc = "lib"

(***************************************************************************)
(* Operations.                                                             *)
(***************************************************************************)
\* c.take_damage(dmg)
TakeDamage(c, dmg) ==
    /\ pre' = creatures
    /\ UNCHANGED healCalls
    /\ IF take_damage_raises(dmg)
       THEN /\ UNCHANGED creatures
            /\ last' = [NoCall EXCEPT !.op = "take_damage", !.self = c,
                                      !.arg = dmg, !.raised = TRUE]
       ELSE /\ creatures' = [creatures EXCEPT
                               ![c].health = take_damage_health(creatures[c], dmg)]
            /\ last' = [NoCall EXCEPT !.op = "take_damage", !.self = c,
                                      !.arg = dmg]

\* player.heal()
Heal ==
    LET p == creatures["player"] IN
    /\ is_alive(p) => healCalls < MaxHealCalls
    /\ healCalls' = IF is_alive(p) THEN healCalls + 1 ELSE healCalls
    /\ pre' = creatures
    /\ IF heal_raises(p)
       THEN /\ UNCHANGED creatures
            /\ last' = [NoCall EXCEPT !.op = "heal", !.self = "player",
                                      !.raised = TRUE]
       ELSE /\ creatures' = [creatures EXCEPT !["player"] = heal_update(p)]
            /\ last' = [NoCall EXCEPT !.op = "heal", !.self = "player",
                                      !.restored = heal_restored(p)]

\* a.attack_target(b)
AttackTarget(a, b) ==
    LET self == creatures[a]
        other == creatures[b]
    IN
    /\ pre' = creatures
    /\ UNCHANGED healCalls
    /\ IF attack_raises(self, other)
       THEN /\ UNCHANGED creatures
            /\ last' = [NoCall EXCEPT !.op = "attack_target", !.self = a,
                                      !.other = b, !.raised = TRUE]
       ELSE \E hit \in SuccessOutcomes(self, other) :
              IF hit
              THEN \E dmg \in DamageDraws(self) :
                     /\ creatures' = attack_hit(creatures, a, b, dmg)
                     /\ last' = [NoCall EXCEPT !.op = "attack_target",
                                               !.self = a, !.other = b,
                                               !.success = TRUE,
                                               !.hit = attack_hit_return(dmg)[1],
                                               !.dmg = attack_hit_return(dmg)[2]]
              ELSE /\ creatures' = attack_miss(creatures, a, b)
                   /\ last' = [NoCall EXCEPT !.op = "attack_target",
                                             !.self = a, !.other = b,
                                             !.hit = attack_miss_return[1],
                                             !.dmg = attack_miss_return[2]]

Next ==
    \/ \E c \in Ids, dmg \in DamageArgs :
          TakeDamage(c, dmg) /\ UNCHANGED <<dealt, dice, pc>>
    \/ Heal /\ UNCHANGED <<dealt, dice, pc>>
    \/ \E a \in Ids, b \in Ids :
          AttackTarget(a, b) /\ UNCHANGED <<dealt, dice, pc>>

Spec == Init /\ [][Next]_vars

(***************************************************************************)
(* CtorSpec: no object exists; one constructor of Creature, Player or      *)
(* Monster is called with arguments of which any may be invalid.  The new  *)
(* object, if any, is creatures[cls]; last.arg holds the arguments.        *)
(***************************************************************************)
Classes == {"Creature", "Player", "Monster"}

\* (name, attack, defense, max_health, damage_range)
CtorArgs == {"", "Hero"} \X StatArgs \X StatArgs \X {-1, 0, 1, MaxHealth}
              \X DamageRangeArgs

CtorInit ==
    /\ creatures = <<>>
    /\ pre = <<>>
    /\ last = NoCall
    /\ healCalls = 0
    /\ dealt = [i \in Ids |-> 0]
    /\ dice = <<>>
    /\ pc = "lib"

\* cls(name, attack, defense, max_health, damage_range)
Construct(cls, args) ==
    LET new == IF cls = "Player"
               THEN PlayerInit(args[1], args[2], args[3], args[4], args[5])
               ELSE IF cls = "Monster"
               THEN MonsterInit(args[1], args[2], args[3], args[4], args[5])
               ELSE CreatureInit("Creature", args[1], args[2], args[3],
                                 args[4], args[5])
    IN  /\ last.op = "new"
        /\ pre' = creatures
        /\ last' = [NoCall EXCEPT !.op = "__init__", !.self = cls,
                                  !.arg = args, !.raised = new.raised]
        /\ creatures' = IF new.raised THEN creatures
                        ELSE [i \in {cls} |-> new.obj]
        /\ UNCHANGED <<healCalls, dealt, dice, pc>>

CtorNext == \E cls \in Classes, args \in CtorArgs : Construct(cls, args)

CtorSpec == CtorInit /\ [][CtorNext]_vars

(***************************************************************************)
(* DiceSpec: an attacker with any valid attack and a defender with any     *)
(* valid defense; the attacker attacks once, and the dice of that attack   *)
(* are kept in `dice`.  Attacks of more than MaxDice dice are not rolled.  *)
(***************************************************************************)
DiceInit ==
    \E attack \in STAT_MIN .. STAT_MAX, defense \in STAT_MIN .. STAT_MAX :
        LET p == PlayerInit("Hero", attack, STAT_MIN, 1, <<1, 1>>)
            m == MonsterInit("Goblin", STAT_MIN, defense, 1, <<1, 1>>)
        IN  /\ creatures = [i \in Ids |-> IF i = "player" THEN p.obj ELSE m.obj]
            /\ pre = creatures
            /\ last = NoCall
            /\ healCalls = 0
            /\ dealt = [i \in Ids |-> 0]
            /\ dice = <<>>
            /\ pc = "lib"

\* a.attack_target(b), with the list `rolls` of line 70 kept
RolledAttack(a, b) ==
    /\ last.op = "new"
    /\ dice_count(creatures[a], creatures[b]) <= MaxDice
    /\ AttackTarget(a, b)
    /\ \E rolls \in [1 .. dice_count(creatures[a], creatures[b])
                       -> 1 .. DIE_SIDES] :
          /\ last'.success = success(rolls)
          /\ dice' = rolls
    /\ UNCHANGED <<dealt, pc>>

DiceNext == RolledAttack("player", "monster")

DiceSpec == DiceInit /\ [][DiceNext]_vars

(***************************************************************************)
(* DriverSpec: the __main__ block.  pc is "while" at the loop test,        *)
(* "heal" at the test of line 130, "goblin" before the monster's attack,   *)
(* "done" after the loop and "crashed" when a call raised: nothing in the  *)
(* block catches ArgumentError, so the exception ends the program.         *)
(* round_no is only printed and is left out.                               *)
(***************************************************************************)
DriverInit ==
    LET p == PlayerInit(DriverPlayerArgs[1], DriverPlayerArgs[2],
                        DriverPlayerArgs[3], DriverPlayerArgs[4],
                        DriverPlayerArgs[5])
        m == MonsterInit(DriverGoblinArgs[1], DriverGoblinArgs[2],
                         DriverGoblinArgs[3], DriverGoblinArgs[4],
                         DriverGoblinArgs[5])
    IN  /\ ~p.raised
        /\ ~m.raised
        /\ creatures = [i \in Ids |-> IF i = "player" THEN p.obj ELSE m.obj]
        /\ pre = creatures
        /\ last = NoCall
        /\ healCalls = 0
        /\ dealt = [i \in Ids |-> 0]
        /\ dice = <<>>
        /\ pc = "while"

\* line 122: while player.is_alive() and goblin.is_alive()
driver_loop_test(cs) == is_alive(cs["player"]) /\ is_alive(cs["monster"])

\* (variant) the driver without the break of lines 126-128
driver_break_after_player_never(cs) == FALSE

\* line 126: if not goblin.is_alive(): break
driver_break_after_player(cs) == ~is_alive(cs["monster"])

\* line 136: if not player.is_alive(): break
driver_break_after_goblin(cs) == ~is_alive(cs["player"])

\* (variant) line 130 without `and player.heals_left() > 0`
driver_heal_test_no_count(p) == p.health <= HEAL_THRESHOLD

\* line 130: if player.health <= 35 and player.heals_left() > 0
driver_heal_test(p) == p.health <= HEAL_THRESHOLD /\ heals_left(p) > 0

\* lines 122-128: the loop test, the player's attack, the first break
DriverPlayerAttack ==
    /\ pc = "while"
    /\ IF driver_loop_test(creatures)
       THEN /\ AttackTarget("player", "monster")
            /\ pc' = IF last'.raised THEN "crashed"
                     ELSE IF driver_break_after_player(creatures')
                     THEN "done" ELSE "heal"
       ELSE /\ pc' = "done"
            /\ UNCHANGED <<creatures, pre, last, healCalls>>
    /\ UNCHANGED <<dealt, dice>>

\* lines 130-132: the player heals when low on health with heals left
DriverHeal ==
    /\ pc = "heal"
    /\ IF driver_heal_test(creatures["player"])
       THEN /\ Heal
            /\ pc' = IF last'.raised THEN "crashed" ELSE "goblin"
       ELSE /\ pc' = "goblin"
            /\ UNCHANGED <<creatures, pre, last, healCalls>>
    /\ UNCHANGED <<dealt, dice>>

\* lines 134-139: the monster's attack, the second break
DriverGoblinAttack ==
    /\ pc = "goblin"
    /\ AttackTarget("monster", "player")
    /\ pc' = IF last'.raised THEN "crashed"
             ELSE IF driver_break_after_goblin(creatures')
             THEN "done" ELSE "while"
    /\ UNCHANGED <<dealt, dice>>

DriverNext == DriverPlayerAttack \/ DriverHeal \/ DriverGoblinAttack

DriverSpec == DriverInit /\ [][DriverNext]_vars

\* an attack of the loop whose dice show a 5 or a 6
DriverPlayerHit == DriverPlayerAttack /\ last'.success
DriverGoblinHit == DriverGoblinAttack /\ last'.success

\* the loop keeps running, and the dice are fair: an attack that is made
\* again and again does not miss for ever
DriverFairSpec ==
    /\ DriverSpec
    /\ WF_vars(DriverNext)
    /\ SF_vars(DriverPlayerHit)
    /\ SF_vars(DriverGoblinHit)

(***************************************************************************)
(* DamageSpec: freshly constructed creatures on which only take_damage is  *)
(* called.  dealt[c] is the sum of the amounts c.take_damage accepted; the *)
(* calls on c are followed until that sum exceeds c.max_health.            *)
(***************************************************************************)
DamageCall(c, dmg) ==
    /\ dealt[c] <= creatures[c].max_health
    /\ TakeDamage(c, dmg)
    /\ dealt' = [dealt EXCEPT
                   ![c] = IF take_damage_raises(dmg) THEN @ ELSE @ + dmg]
    /\ UNCHANGED <<dice, pc>>

DamageNext == \E c \in Ids, dmg \in DamageArgs : DamageCall(c, dmg)

DamageSpec == Init /\ [][DamageNext]_vars

(***************************************************************************)
(* Properties.  `last` is the call that produced the current state, `pre`  *)
(* the objects when that call started, `creatures` the objects after it.   *)
(***************************************************************************)
Player == creatures["player"]
PrePlayer == pre["player"]
Called(op) == last.op = op
Returned(op) == last.op = op /\ ~last.raised

\* C1: every creature's health stays within [0, max_health] in every state
\* reached by any sequence of take_damage, heal and attack_target calls,
\* whether the calls succeed or raise.
C1_HealthInRange ==
    \A c \in Ids : /\ 0 <= creatures[c].health
                   /\ creatures[c].health <= creatures[c].max_health

\* a heal that max_health capped, with the monster already at health 0
C1_Witness ==
    /\ Returned("heal")
    /\ PrePlayer.health + heal_amount(PrePlayer) > PrePlayer.max_health
    /\ creatures["monster"].health = 0

\* C2: while the player is alive, the k-th heal call succeeds for k <= 4 and
\* raises for k > 4, whatever the health; so heal succeeds MAX_HEALS times.
C2_FirstFourHealsSucceed ==
    /\ Called("heal") /\ is_alive(PrePlayer)
          => (last.raised <=> healCalls > MAX_HEALS)
    /\ is_alive(Player) => Player.heals_used = Min(healCalls, MAX_HEALS)

\* the fifth heal call of a living, wounded player has just raised
C2_Witness ==
    /\ Called("heal") /\ last.raised
    /\ healCalls = MAX_HEALS + 1
    /\ is_alive(Player)
    /\ Player.health < Player.max_health

\* C3: attack_target raises whenever the attacker or the target is dead, and
\* the health of both is then what it was before the call.
C3_DeadCannotFight ==
    Called("attack_target")
    /\ (~is_alive(pre[last.self]) \/ ~is_alive(pre[last.other]))
        => /\ last.raised
           /\ creatures[last.self].health = pre[last.self].health
           /\ creatures[last.other].health = pre[last.other].health

\* a living attacker has just been refused a dead target
C3_Witness ==
    /\ Called("attack_target") /\ last.raised
    /\ is_alive(creatures[last.self])
    /\ ~is_alive(creatures[last.other])

\* C4: a call that raises changes nothing: take_damage raises on a negative
\* amount, heal raises on a dead player or when heals_used >= 4, and in each
\* case health and heals_used are what they were.
C4_FailedCallsChangeNothing ==
    /\ Called("take_damage") /\ last.arg < 0 => last.raised
    /\ Called("heal")
       /\ (~is_alive(PrePlayer) \/ PrePlayer.heals_used >= MAX_HEALS)
          => last.raised
    /\ last.raised =>
          /\ \A c \in Ids : creatures[c].health = pre[c].health
          /\ Player.heals_used = PrePlayer.heals_used

\* heal has just raised for a living, wounded player with no heal left
C4_Witness ==
    /\ Called("heal") /\ last.raised
    /\ is_alive(Player)
    /\ Player.heals_used = MAX_HEALS
    /\ Player.health < Player.max_health
    /\ healCalls = MAX_HEALS + 1

\* C5: a heal that returns sets health to min(max_health, health + amount)
\* with amount = max(1, floor(0.3 * max_health)), returns new - old health
\* and adds one to heals_used; at full health it returns 0, leaves health
\* alone and still uses up one heal.
C5_HealEffect ==
    Returned("heal") =>
        LET amount == Max(1, (3 * PrePlayer.max_health) \div 10)
            new == Min(PrePlayer.max_health, PrePlayer.health + amount)
        IN  /\ Player.health = new
            /\ last.restored = new - PrePlayer.health
            /\ Player.heals_used = PrePlayer.heals_used + 1
            /\ PrePlayer.health = PrePlayer.max_health
                  => /\ last.restored = 0
                     /\ Player.health = PrePlayer.health

\* a heal at full health has returned 0 and used up a heal
C5_Witness ==
    /\ Returned("heal")
    /\ PrePlayer.health = PrePlayer.max_health
    /\ last.restored = 0
    /\ Player.heals_used = PrePlayer.heals_used + 1

\* C6, as claimed: every heal that returns, returns restored >= 1.
C6_HealReturnsPositive ==
    Returned("heal") => last.restored >= 1

\* C6, amended: every heal that returns, returns restored >= 0, and
\* restored >= 1 exactly when health was below max_health before the call.
C6_HealReturnsNonNegative ==
    Returned("heal") =>
        /\ last.restored >= 0
        /\ (last.restored >= 1 <=> PrePlayer.health < PrePlayer.max_health)

\* a heal of a wounded player that max_health capped below the full amount
C6_Witness ==
    /\ Returned("heal")
    /\ last.restored >= 1
    /\ last.restored < heal_amount(PrePlayer)

\* C7, as claimed: attack_target leaves every field of the attacker as it
\* was, for every living attacker and every living creature passed as other.
C7_AttackerUntouched ==
    Returned("attack_target") => creatures[last.self] = pre[last.self]

\* C7, amended: attack_target changes nothing but other.health; so it leaves
\* the attacker as it was whenever other is not the attacker itself.
C7_OnlyOtherHealthChanges ==
    Returned("attack_target") =>
        /\ \A c \in Ids \ {last.other} : creatures[c] = pre[c]
        /\ creatures[last.other] =
              [pre[last.other] EXCEPT !.health = creatures[last.other].health]
        /\ last.other # last.self => creatures[last.self] = pre[last.self]

\* the player has hit the monster and is itself as it was
C7_Witness ==
    /\ Returned("attack_target") /\ last.hit
    /\ last.self = "player" /\ last.other = "monster"
    /\ creatures["monster"].health < pre["monster"].health
    /\ Player = PrePlayer

\* C8: on a hit attack_target returns (true, d) with d in the attacker's
\* damage_range, and the target's health is max(0, old health - d) for that
\* same d.
C8_HitEffect ==
    Returned("attack_target") /\ last.success =>
        /\ last.hit = TRUE
        /\ pre[last.self].damage_range[1] <= last.dmg
        /\ last.dmg <= pre[last.self].damage_range[2]
        /\ creatures[last.other].health =
              Max(0, pre[last.other].health - last.dmg)

\* a hit for the largest damage of a range, taken by a target that survives
C8_Witness ==
    /\ Returned("attack_target") /\ last.success
    /\ last.dmg = pre[last.self].damage_range[2]
    /\ pre[last.self].damage_range[1] < last.dmg
    /\ creatures[last.other].health = pre[last.other].health - last.dmg
    /\ creatures[last.other].health > 0

\* C9: on a miss attack_target returns (false, 0) and every field of both
\* creatures is what it was.
C9_MissChangesNothing ==
    Returned("attack_target") /\ ~last.success =>
        /\ last.hit = FALSE
        /\ last.dmg = 0
        /\ creatures = pre

\* the monster has missed a wounded player
C9_Witness ==
    /\ Returned("attack_target") /\ ~last.success
    /\ last.self = "monster" /\ last.other = "player"
    /\ Player.health < Player.max_health

\* C10: take_damage(0) returns and leaves health as it was; take_damage(d)
\* sets health to 0 when d >= health and to health - d when 0 <= d < health.
C10_TakeDamageEffect ==
    Called("take_damage") /\ last.arg >= 0 =>
        LET old == pre[last.self].health
            new == creatures[last.self].health
        IN  /\ ~last.raised
            /\ last.arg = 0 => new = old
            /\ last.arg >= old => new = 0
            /\ last.arg < old => new = old - last.arg

\* a living creature has taken more damage than it had health
C10_Witness ==
    /\ Returned("take_damage")
    /\ pre[last.self].health > 0
    /\ last.arg > pre[last.self].health
    /\ creatures[last.self].health = 0

\* C13: heals_used stays in [0, 4], never decreases from one state to the
\* next, changes only by a heal that returns and then by exactly +1, and
\* heals_left() is 4 - heals_used, never negative.
C13_HealsUsedCounter ==
    /\ Player.heals_used \in 0 .. MAX_HEALS
    /\ Player.heals_used >= PrePlayer.heals_used
    /\ Player.heals_used # PrePlayer.heals_used
          => /\ Returned("heal")
             /\ Player.heals_used = PrePlayer.heals_used + 1
    /\ heals_left(Player) = 4 - Player.heals_used
    /\ heals_left(Player) >= 0

\* the fourth heal has just returned: none is left
C13_Witness ==
    /\ Returned("heal")
    /\ PrePlayer.heals_used = MAX_HEALS - 1
    /\ Player.heals_used = MAX_HEALS
    /\ heals_left(Player) = 0

\* C14: no operation, returning or raising, changes name, attack, defense,
\* max_health or damage_range; so attack and defense stay in [1, 30] and
\* 1 <= damage_range.min <= damage_range.max in every state.
C14_StatsFrozen ==
    \A c \in Ids :
        /\ creatures[c].name = pre[c].name
        /\ creatures[c].attack = pre[c].attack
        /\ creatures[c].defense = pre[c].defense
        /\ creatures[c].max_health = pre[c].max_health
        /\ creatures[c].damage_range = pre[c].damage_range
        /\ creatures[c].attack \in 1 .. 30
        /\ creatures[c].defense \in 1 .. 30
        /\ 1 <= creatures[c].damage_range[1]
        /\ creatures[c].damage_range[1] <= creatures[c].damage_range[2]

\* a hit has just changed the health of a player that healed before
C14_Witness ==
    /\ Returned("attack_target") /\ last.success
    /\ last.other = "player"
    /\ Player.health < PrePlayer.health
    /\ Player.heals_used > 0
    /\ Player.attack = MaxStat

\* C16: when a living player below max_health with a heal left calls heal,
\* the call returns restored > 0 and leaves health above what it was.
C16_HealOfWoundedRestores ==
    /\ Called("heal")
    /\ is_alive(PrePlayer)
    /\ PrePlayer.health < PrePlayer.max_health
    /\ PrePlayer.heals_used < MAX_HEALS
    => /\ ~last.raised
       /\ last.restored > 0
       /\ Player.health > PrePlayer.health

\* a wounded player has used its last heal and gained health
C16_Witness ==
    /\ Returned("heal")
    /\ PrePlayer.heals_used = MAX_HEALS - 1
    /\ PrePlayer.health < PrePlayer.max_health
    /\ Player.health > PrePlayer.health

\* C17: death is absorbing: a creature whose health was 0 when a call
\* started still has health 0 when it ends, whatever the call.
C17_DeathAbsorbing ==
    \A c \in Ids : ~is_alive(pre[c]) => /\ creatures[c].health = 0
                                        /\ ~is_alive(creatures[c])

\* heal has just been refused to a dead player that had heals left
C17_Witness ==
    /\ Called("heal") /\ last.raised
    /\ ~is_alive(PrePlayer)
    /\ Player.heals_used < MAX_HEALS
    /\ Player.health = 0

\* C11: on a fresh creature that only take_damage is called on, once the
\* accepted amounts sum to exactly max_health the health is 0 and is_alive()
\* is false, and while they sum to less the creature is alive.
C11_DamageSumKills ==
    \A c \in Ids :
        /\ dealt[c] = creatures[c].max_health
              => creatures[c].health = 0 /\ ~is_alive(creatures[c])
        /\ dealt[c] < creatures[c].max_health => is_alive(creatures[c])

\* the last of several calls has brought the sum to max_health exactly
C11_Witness ==
    /\ Returned("take_damage")
    /\ last.arg > 0
    /\ last.arg < creatures[last.self].max_health
    /\ dealt[last.self] = creatures[last.self].max_health
    /\ pre[last.self].health = last.arg
    /\ creatures[last.self].health = 0

\* C12: a constructor raises ArgumentError when the name is empty, attack or
\* defense is outside [1, 30], max_health <= 0, or damage_range has min < 1
\* or min > max; for every other input it returns an object with
\* health = max_health > 0 and, for a Player, heals_used = 0.
C12_ConstructionContract ==
    Called("__init__") =>
        LET name == last.arg[1]
            attack == last.arg[2]
            defense == last.arg[3]
            max_health == last.arg[4]
            range == last.arg[5]
            invalid == \/ name = ""
                       \/ attack < 1 \/ attack > 30
                       \/ defense < 1 \/ defense > 30
                       \/ max_health <= 0
                       \/ range[1] < 1 \/ range[1] > range[2]
        IN  /\ invalid => last.raised /\ DOMAIN creatures = {}
            /\ ~invalid =>
                  /\ ~last.raised
                  /\ DOMAIN creatures = {last.self}
                  /\ creatures[last.self].health = max_health
                  /\ creatures[last.self].max_health = max_health
                  /\ creatures[last.self].health > 0
                  /\ last.self = "Player"
                        => creatures[last.self].heals_used = 0

\* a Player has been constructed with the largest stats and health
C12_Witness ==
    /\ Returned("__init__")
    /\ last.self = "Player"
    /\ creatures["Player"].health = MaxHealth
    /\ creatures["Player"].attack = MaxStat
    /\ creatures["Player"].heals_used = 0

\* C15: the number of dice is max(1, attack(self) - defense(other) + 1),
\* which lies in [1, 30] for all valid stats (30 for attack 30 against
\* defense 1, 1 whenever attack <= defense), and the attack hits iff at
\* least one of that many rolls is 5 or 6.
C15_DicePool ==
    LET attack == creatures["player"].attack
        defense == creatures["monster"].defense
        n == dice_count(creatures["player"], creatures["monster"])
    IN  /\ n = (IF attack - defense + 1 >= 1 THEN attack - defense + 1 ELSE 1)
        /\ n \in 1 .. 30
        /\ attack = 30 /\ defense = 1 => n = 30
        /\ attack <= defense => n = 1
        /\ Returned("attack_target") =>
              /\ Len(dice) = n
              /\ \A i \in 1 .. n : dice[i] \in 1 .. 6
              /\ last.hit <=> \E i \in 1 .. n : dice[i] \in {5, 6}

\* three dice were rolled and only the last one shows a 5: a hit
C15_Witness ==
    /\ Returned("attack_target")
    /\ dice = <<1, 4, 5>>
    /\ last.hit
    /\ creatures["monster"].health = 0

\* C18: in the driver loop no call raises ArgumentError, whatever the dice:
\* every attack_target is made with attacker and target alive, every heal
\* with the player alive and heals_used < 4.
C18_DriverNeverRaises ==
    /\ ~last.raised
    /\ pc # "crashed"
    /\ Called("attack_target")
          => is_alive(pre[last.self]) /\ is_alive(pre[last.other])
    /\ Called("heal")
          => is_alive(PrePlayer) /\ PrePlayer.heals_used < MAX_HEALS

\* the player has just used its fourth heal in the loop
C18_Witness ==
    /\ Returned("heal")
    /\ pc = "goblin"
    /\ PrePlayer.health <= HEAL_THRESHOLD
    /\ Player.heals_used = MAX_HEALS

\* C19, the part about states: the two are never both dead, the loop ends
\* with exactly one of them dead, and the monster never attacks once dead.
C19_DriverSafe ==
    /\ ~(~is_alive(Player) /\ ~is_alive(creatures["monster"]))
    /\ pc = "done" => (is_alive(Player) # is_alive(creatures["monster"]))
    /\ ~is_alive(creatures["monster"]) => pc = "done"
    /\ Called("attack_target") /\ last.self = "monster"
          => is_alive(pre["monster"])

\* C19: the above in every state and, with fair dice, the loop terminates.
C19_DriverTerminates == []C19_DriverSafe /\ <>(pc = "done")

\* the loop has ended on the monster's killing blow, all heals used
C19_Witness ==
    /\ pc = "done"
    /\ ~is_alive(Player)
    /\ is_alive(creatures["monster"])
    /\ Player.heals_used = MAX_HEALS
    /\ last.self = "monster" /\ last.success

====
